---- MODULE Spec2Model ----
(***************************************************************************)
(* Model of package rtm (src/rtm/rtm.go): the ServeMux routing table, the  *)
(* Client's DialAndListen handshake and read loop, the keepalive watchdog  *)
(* timer and the outbound Write path.                                      *)
(*                                                                         *)
(* Execution contexts:                                                     *)
(*   "loop"  - the goroutine that runs Client.DialAndListen; handlers run  *)
(*             synchronously on it (rtm.go:205, rtm.go:96).                *)
(*   "timer" - the goroutine time.AfterFunc starts for the watchdog        *)
(*             callback (rtm.go:179-181).                                  *)
(*   "reg"   - any other goroutine of the program that calls Handle /      *)
(*             HandleFunc on the mux at run time.                          *)
(*                                                                         *)
(* Time is counted in whole seconds by the Tick action.  The watchdog      *)
(* callback is taken to run at the instant the timer expires: Tick is      *)
(* disabled while an expiry is due or the callback's Write is in flight.   *)
(***************************************************************************)
EXTENDS Integers, Sequences, FiniteSets, TLC

\* ------------------------------------------------------------------ bounds
\* frames (inner read loop exits) the socket delivers in one run
MaxFrames == 2
\* full-buffer reads that may precede the last read of one frame
MaxFull == 1
\* Handle calls made in one run (all contexts together)
MaxRegs == 2
\* Write calls handlers make in one run
MaxWrites == 1
\* socket reads that return an error in one run
MaxErrReads == 1
\* expiries of the watchdog timer in one run
MaxExpiries == 1

\* ------------------------------------------------------- program constants
\* msg := make([]byte, 4096), and the loop test read == 4096
BufSize == 4096
\* time.AfterFunc(25*time.Second, ...) and watchdog.Reset(25 * time.Second)
WatchdogSeconds == 25
\* time.Sleep(1 * time.Second)
SleepSeconds == 1
\* the zero value of Client.sendID
InitialSendID == 0

\* --------------------------------------------------------------- universes
\* Event type strings, as sequences of characters; one is a proper prefix of
\* the other so that exact matching differs from prefix matching.
TypeA == <<"a">>
TypeAB == <<"a", "b">>
Types == {TypeA, TypeAB}
Patterns == Types
HandlerIds == {"h1", "h2"}
Ctx == {"loop", "timer"}
RegCtx == {"loop", "reg"}
ErrStrings == {"", "invalid_auth"}
\* Arguments handlers pass to WriteMsg(channel, text).
Channels == {"C123"}
Texts == {"ready"}

\* Decoded JSON values, as far as the router distinguishes them.
\*   bad    - the bytes are not valid JSON (json.Unmarshal returns an error)
\*   obj    - a JSON object with a string "type" field t
\*   notype - a JSON object without a string "type" field
\*   nonmap - valid JSON that is not an object (array, number, null ...)
Bad == [k |-> "bad", t |-> <<>>]
Obj(t) == [k |-> "obj", t |-> t]
NoType == [k |-> "notype", t |-> <<>>]
NonMap == [k |-> "nonmap", t |-> <<>>]
Values == {Bad, NoType, NonMap} \cup {Obj(t) : t \in Types}

\* A frame the peer sends: what its whole byte string decodes to (json),
\* what the bytes of its last read alone decode to (tail), and the number of
\* full-buffer reads that precede the last read (nfull).  The tail of a JSON
\* object cut at a buffer boundary is never valid JSON (its braces or quotes
\* are unbalanced); the tail of other input can be anything.
Frames ==
    { f \in [json : Values, tail : Values, nfull : 0..MaxFull] :
        /\ f.nfull = 0 => f.tail = f.json
        /\ (f.nfull > 0 /\ f.json.k \in {"obj", "notype"}) => f.tail = Bad
        /\ (f.nfull > 0 /\ f.json.k \in {"bad", "nonmap"}) => f.tail \in {Bad, Obj(TypeA)} }

NoFrame == [json |-> Bad, tail |-> Bad, nfull |-> 0]

\* The bytes one Read leaves in msg[0:read]: chunk idx of frame number no.
Chunk(no, idx) == [no |-> no, idx |-> idx]
NoChunk == Chunk(0, 0)

NoEntry == [handler |-> "nil", pattern |-> <<>>]
NoErr == [kind |-> "nil", text |-> <<>>]
NoReg == [pc |-> "none", pattern |-> <<>>, handler |-> "nil"]
NoFound == [h |-> "nil", pattern |-> <<>>, panic |-> FALSE]
\* A Write call in progress: the message's fields (type, and channel and
\* text where it has them), the id put into it, the value of sendID loaded
\* by sendID++, whether json.Marshal accepts the message, (watchdog callback
\* only) the arming that expired, and (WriteMsg only) the arguments of the
\* call.
NoWrite == [pc |-> "none", type |-> "", channel |-> "", text |-> "", id |-> 0,
            tmp |-> 0, ok |-> TRUE, arm |-> 0, args |-> <<>>]

Min(a, b) == IF a < b THEN a ELSE b

\* The runs explored.  "routing": frames and registrations, with no socket
\* error, no Write and no watchdog expiry.  "keepalive": one frame and one
\* registration, with Writes, socket errors and watchdog expiries.
Scenarios ==
    { [frames |-> MaxFrames, regs |-> MaxRegs, writes |-> 0, expiries |-> 0, errs |-> 0],
      [frames |-> 1, regs |-> 1, writes |-> MaxWrites, expiries |-> MaxExpiries,
       errs |-> MaxErrReads] }

VARIABLES
    pc,         \* position of the "loop" context in Client.DialAndListen
    ret,        \* the error DialAndListen returned (NoErr: none yet)
    body,       \* rtm.start response body read by ioutil.ReadAll
    r,          \* StartResponse decoded from body
    ws,         \* Client.ws: "nil", "open", "closed"
    dials,      \* websocket.Dial calls made
    sendID,     \* Client.sendID
    msg,        \* the bytes Read left in the buffer msg (a Chunk)
    read,       \* local read of the loop
    err,        \* local err of the loop: "nil" or "err"
    event,      \* local event of the loop (decoded value)
    found,      \* (h, pattern) returned by mux.Handler to HandleEvent
    hrun,       \* the handler running on the loop context, "nil" if none
    m,          \* ServeMux.m: pattern -> eventHandler
    mu,         \* ServeMux.mu: "free" or the context holding it
    hreg,       \* per context: the Handle call in progress
    nregs,      \* Handle calls started
    w,          \* per context: the Write call in progress
    nwrites,    \* Write calls started
    sent,       \* data handed to c.ws.Write, in order
    watchdog,   \* [armed, idle]: timer pending, seconds since arm/Reset
    slept,      \* seconds slept in time.Sleep
    wire,       \* the frame being delivered and the index of its next chunk
    hist,       \* history of the run, read by the properties only
    lim         \* the scenario explored: the limits of this run

vars == <<pc, ret, body, r, ws, dials, sendID, msg, read, err, event, found,
          hrun, m, mu, hreg, nregs, w, nwrites, sent, watchdog, slept, wire, hist,
          lim>>


InitHist ==
    [ gets |-> 0,             \* http.Get requests of rtm.start made
      anyRead |-> FALSE,      \* c.ws.Read has been called
      nerr |-> 0,             \* reads that returned an error
      readAfterErr |-> FALSE, \* a Read was called after a Read returned an error
      nrecv |-> 0,            \* frames received (exits of the inner read loop)
      chunks |-> <<>>,        \* the reads of the frame being received, in order
      arg |-> <<>>,           \* the bytes last passed to json.Unmarshal
      cur |-> [json |-> Bad, decoded |-> FALSE, got |-> Bad, wasReg |-> FALSE,
               handled |-> FALSE, reset |-> FALSE],
                              \* the frame being processed: what its bytes decode
                              \* to, whether json.Unmarshal has run for it and
                              \* what it returned, whether its type had an entry
                              \* then, whether a handler was invoked for it,
                              \* whether the watchdog was Reset for it
      prevBad |-> FALSE,      \* the frame before the current one was invalid JSON
      invoked |-> <<>>,       \* the frames a handler was invoked for, in order
      call |-> [h |-> "nil", t |-> <<>>, want |-> {}],
                              \* the handler invocation in progress
      faults |-> 0,           \* panics raised by handlers
      armNo |-> 0,            \* times the watchdog was armed or Reset
      nfire |-> 0,            \* times the watchdog expired
      full |-> {},            \* armings that ran their whole interval
      completed |-> [p \in Patterns |-> "nil"],  \* last completed Handle per pattern
      want |-> {},            \* handlers the dispatch in progress may find: the
                              \* last completed Handle for the event's type at
                              \* HandleEvent entry, and those of Handle calls in
                              \* flight between then and the lookup
      overwrote |-> {},       \* patterns whose entry a Handle replaced with
                              \* another handler
      reent |-> FALSE,        \* a Handle call made by a running handler returned
      overlap |-> FALSE ]     \* a Write call began while another was in progress

\* The process is gone after an unrecovered panic; DialAndListen has
\* returned in "returned".
Panicked == pc = "panicked"
Running == pc \notin {"panicked", "returned"}

BadBody == [valid |-> FALSE, Ok |-> FALSE, Error |-> "", URL |-> ""]
\* rtm.start bodies: one json.Unmarshal rejects, and the StartResponse
\* objects {ok, error, url}.
Bodies ==
    {BadBody}
    \cup {[valid |-> TRUE, Ok |-> TRUE, Error |-> "", URL |-> "wss"]}
    \cup {[valid |-> TRUE, Ok |-> FALSE, Error |-> e, URL |-> ""] : e \in ErrStrings}

Init ==
    /\ pc = "start"
    /\ ret = NoErr
    /\ body = BadBody
    /\ r = BadBody
    /\ ws = "nil"
    /\ dials = 0
    /\ sendID = InitialSendID
    /\ msg = NoChunk
    /\ read = 0
    /\ err = "nil"
    /\ event = Bad
    /\ found = NoFound
    /\ hrun = "nil"
    /\ m = <<>>
    /\ mu = "free"
    /\ hreg = [c \in RegCtx |-> NoReg]
    /\ nregs = 0
    /\ w = [c \in Ctx |-> NoWrite]
    /\ nwrites = 0
    /\ sent = <<>>
    /\ watchdog = [armed |-> FALSE, idle |-> 0]
    /\ slept = 0
    /\ wire = [f |-> NoFrame, next |-> 0, active |-> FALSE]
    /\ hist = InitHist
    /\ lim \in Scenarios

\* ------------------------------------------------------------- handshake
\* rtm.go:146-153: http.Get of rtm.start; an error returns it, otherwise the
\* body is read (the error of ioutil.ReadAll is overwritten at line 156).
HttpGet ==
    /\ pc = "start"
    /\ \/ /\ pc' = "returned"
          /\ ret' = [kind |-> "http", text |-> <<>>]
          /\ UNCHANGED body
       \/ /\ \E b \in Bodies : body' = b
          /\ pc' = "decode"
          /\ UNCHANGED ret
    /\ hist' = [hist EXCEPT !.gets = @ + 1]
    /\ UNCHANGED <<lim, r, ws, dials, sendID, msg, read, err, event, found, hrun,
                   m, mu, hreg, nregs, w, nwrites, sent, watchdog, slept, wire>>

\* A variant of NotOkError that drops the service's error string.
NotOkError_NoText(e) == [kind |-> "notok", text |-> <<"RTM API was not OK to start stream: ", "">>]

\* rtm.go:163: fmt.Errorf("RTM API was not OK to start stream: %s", r.Error)
NotOkError(e) == [kind |-> "notok", text |-> <<"RTM API was not OK to start stream: ", e>>]

\* rtm.go:155-164: decode the body; a decode error and ok = false return.
DecodeStart ==
    /\ pc = "decode"
    /\ IF ~body.valid
         THEN /\ ret' = [kind |-> "json", text |-> <<>>]
              /\ pc' = "returned"
              /\ UNCHANGED r
         ELSE /\ r' = body
              /\ IF ~body.Ok
                   THEN /\ ret' = NotOkError(body.Error)
                        /\ pc' = "returned"
                   ELSE /\ pc' = "dial"
                        /\ UNCHANGED ret
    /\ UNCHANGED <<lim, body, ws, dials, sendID, msg, read, err, event, found, hrun,
                   m, mu, hreg, nregs, w, nwrites, sent, watchdog, slept, wire, hist>>

\* A variant of Dial that dials once more when the first dial fails.
Dial_Retry ==
    /\ pc = "dial"
    /\ dials' = dials + 1
    /\ \/ /\ ws' = "open"
          /\ pc' = "arm"
          /\ UNCHANGED ret
       \/ /\ IF dials = 0
               THEN pc' = "dial" /\ UNCHANGED ret
               ELSE ret' = [kind |-> "dial", text |-> <<>>] /\ pc' = "returned"
          /\ UNCHANGED ws
    /\ UNCHANGED <<lim, body, r, sendID, msg, read, err, event, found, hrun,
                   m, mu, hreg, nregs, w, nwrites, sent, watchdog, slept, wire, hist>>

\* rtm.go:166-175: websocket.Dial; an error returns it.
Dial ==
    /\ pc = "dial"
    /\ dials' = dials + 1
    /\ \/ /\ ws' = "open"
          /\ pc' = "arm"
          /\ UNCHANGED ret
       \/ /\ ret' = [kind |-> "dial", text |-> <<>>]
          /\ pc' = "returned"
          /\ UNCHANGED ws
    /\ UNCHANGED <<lim, body, r, sendID, msg, read, err, event, found, hrun,
                   m, mu, hreg, nregs, w, nwrites, sent, watchdog, slept, wire, hist>>

\* rtm.go:178-183: allocate msg, arm the watchdog with time.AfterFunc.
ArmWatchdog ==
    /\ pc = "arm"
    /\ watchdog' = [armed |-> TRUE, idle |-> 0]
    /\ hist' = [hist EXCEPT !.armNo = @ + 1]
    /\ pc' = "read"
    /\ UNCHANGED <<lim, ret, body, r, ws, dials, sendID, msg, read, err, event, found,
                   hrun, m, mu, hreg, nregs, w, nwrites, sent, slept, wire>>

\* -------------------------------------------------------------- read loop
\* rtm.go:186: the inner loop goes on while read == 4096 || err != nil.
ReadLoopContinues(n, e) == n = BufSize \/ e # "nil"

\* rtm.go:199: msg[0:read], the bytes handed to json.Unmarshal: the buffer
\* holds the bytes of the last Read only (every Read writes at msg[0]).
Slice(buf, n) == IF n = 0 THEN <<>> ELSE <<buf>>

\* All the reads of frame number no, in order.
WholeFrame(f, no) == [i \in 1..(f.nfull + 1) |-> Chunk(no, i - 1)]

\* json.Unmarshal of a byte string taken from frame f (number no).
Decode(bytes, f, no) ==
    IF bytes = <<>> THEN Bad
    ELSE IF bytes = WholeFrame(f, no) THEN f.json
    ELSE IF bytes = <<Chunk(no, f.nfull)>> THEN f.tail
    ELSE Bad

\* What c.ws.Read can return next: an error with nothing read, the next
\* chunk of the frame being delivered, or (between frames) an empty read or
\* the first chunk of a new frame.  Every chunk but the last of a frame
\* fills the buffer.
ReadOutcomes ==
    (IF hist.nerr < lim.errs
       THEN {[kind |-> "err", n |-> 0, e |-> "err", f |-> wire.f, idx |-> 0]}
       ELSE {})
    \cup
    (IF wire.active
       THEN {[kind |-> "chunk",
              n |-> IF wire.next < wire.f.nfull THEN BufSize ELSE BufSize - 1,
              e |-> "nil", f |-> wire.f, idx |-> wire.next]}
       ELSE IF hist.nrecv < lim.frames
         THEN {[kind |-> "empty", n |-> 0, e |-> "nil", f |-> NoFrame, idx |-> 0]}
              \cup {[kind |-> "chunk",
                     n |-> IF f.nfull > 0 THEN BufSize ELSE BufSize - 1,
                     e |-> "nil", f |-> f, idx |-> 0] : f \in Frames}
         ELSE {})

\* rtm.go:186-196: one c.ws.Read(msg) with the loop test and the loop body
\* that follow it: on read == 4096 or an error the loop goes on (sleeping
\* first when read == 0), otherwise the inner loop is left.
Read ==
    /\ pc = "read"
    /\ ws = "open"
    /\ \E o \in ReadOutcomes :
         LET no == hist.nrecv + 1
             c == Chunk(no, o.idx)
             starts == o.kind = "empty" \/ (o.kind = "chunk" /\ o.idx = 0)
             goesOn == ReadLoopContinues(o.n, o.e)
         IN /\ read' = o.n
            /\ err' = o.e
            /\ msg' = IF o.n > 0 THEN c ELSE msg
            /\ pc' = IF goesOn THEN (IF o.n = 0 THEN "sleep" ELSE "read") ELSE "reset"
            /\ slept' = 0
            /\ wire' = IF o.kind = "err" THEN wire
                       ELSE [f |-> o.f, next |-> o.idx + 1,
                             active |-> o.kind = "chunk" /\ o.idx < o.f.nfull]
            /\ hist' = [hist EXCEPT
                 !.anyRead = TRUE,
                 !.readAfterErr = @ \/ hist.nerr > 0,
                 !.nerr = IF o.kind = "err" THEN @ + 1 ELSE @,
                 !.chunks = IF o.kind = "err" THEN @
                            ELSE IF o.kind = "empty" THEN <<>>
                            ELSE IF o.idx = 0 THEN <<c>> ELSE Append(@, c),
                 !.cur = IF starts
                           THEN [InitHist.cur EXCEPT !.json = o.f.json]
                           ELSE @,
                 !.prevBad = IF starts THEN hist.nrecv > 0 /\ hist.cur.json = Bad ELSE @,
                 !.nrecv = IF goesOn THEN @ ELSE @ + 1]
    /\ UNCHANGED <<lim, ret, body, r, ws, dials, sendID, event, found, hrun,
                   m, mu, hreg, nregs, w, nwrites, sent, watchdog>>

\* rtm.go:192: time.Sleep(1 * time.Second) is over.
WakeUp ==
    /\ pc = "sleep"
    /\ slept >= SleepSeconds
    /\ pc' = "read"
    /\ UNCHANGED <<lim, ret, body, r, ws, dials, sendID, msg, read, err, event, found, hrun,
                   m, mu, hreg, nregs, w, nwrites, sent, watchdog, slept, wire, hist>>

\* The arming ran its whole interval: the timer is past its expiry, or at
\* it with the callback already started.
IntervalElapsed(wd) ==
    wd.idle > WatchdogSeconds \/ (wd.idle = WatchdogSeconds /\ ~wd.armed)

\* A variant of TimerReset that restarts the count but leaves an expired
\* timer expired.
TimerReset_NoRearm(wd) == [armed |-> wd.armed, idle |-> 0]

\* watchdog.Reset(25 * time.Second): the timer is pending again, expired or not.
TimerReset(wd) == [armed |-> TRUE, idle |-> 0]

\* A variant of WatchdogReset that leaves the timer as it is.
WatchdogReset_Skip ==
    /\ pc = "reset"
    /\ pc' = "unmarshal"
    /\ UNCHANGED <<lim, ret, body, r, ws, dials, sendID, msg, read, err, event, found, hrun,
                   m, mu, hreg, nregs, w, nwrites, sent, watchdog, slept, wire, hist>>

\* rtm.go:197: reset the watchdog once the inner read loop is left.
WatchdogReset ==
    /\ pc = "reset"
    /\ watchdog' = TimerReset(watchdog)
    /\ hist' = [hist EXCEPT
         !.armNo = @ + 1,
         !.cur.reset = TRUE,
         !.full = IF IntervalElapsed(watchdog) THEN @ \cup {hist.armNo} ELSE @]
    /\ pc' = "unmarshal"
    /\ UNCHANGED <<lim, ret, body, r, ws, dials, sendID, msg, read, err, event, found, hrun,
                   m, mu, hreg, nregs, w, nwrites, sent, slept, wire>>

\* rtm.go:198-206: decode msg[0:read]; a decode error drops the frame, a
\* decoded event goes to handler.HandleEvent(c, event).
Unmarshal ==
    /\ pc = "unmarshal"
    /\ LET bytes == Slice(msg, read)
           v == Decode(bytes, wire.f, hist.nrecv)
       IN /\ event' = v
          /\ pc' = IF v = Bad THEN "read" ELSE "dispatch"
          /\ wire' = [f |-> NoFrame, next |-> 0, active |-> FALSE]
          /\ hist' = [hist EXCEPT
               !.arg = bytes,
               !.cur.decoded = TRUE,
               !.cur.got = v,
               !.cur.wasReg = hist.cur.json.k = "obj" /\ hist.cur.json.t \in DOMAIN m,
               !.want = IF v.k # "obj" THEN {}
                        ELSE {hist.completed[v.t]}
                             \cup (IF hreg["reg"].pc # "none" /\ hreg["reg"].pattern = v.t
                                     THEN {hreg["reg"].handler} ELSE {})]
    /\ UNCHANGED <<lim, ret, body, r, ws, dials, sendID, msg, read, err, found, hrun,
                   m, mu, hreg, nregs, w, nwrites, sent, watchdog, slept>>

\* ------------------------------------------------------------------- mux
IsPrefix(p, t) == Len(p) <= Len(t) /\ SubSeq(t, 1, Len(p)) = p

\* A variant of Lookup that takes an entry whose pattern is a prefix of the
\* type.
Lookup_Prefix(mm, t) ==
    IF \E p \in DOMAIN mm : IsPrefix(p, t)
      THEN LET p == CHOOSE q \in DOMAIN mm : IsPrefix(q, t)
           IN [h |-> mm[p].handler, pattern |-> mm[p].pattern, panic |-> FALSE]
      ELSE NoFound

\* rtm.go:83-87: e, ok := mux.m[eType]; the entry's handler and pattern when
\* the key is present, (nil, "") otherwise.
Lookup(mm, t) ==
    IF t \in DOMAIN mm
      THEN [h |-> mm[t].handler, pattern |-> mm[t].pattern, panic |-> FALSE]
      ELSE NoFound

\* A variant of Store that keeps the entry a pattern already has.
Store_KeepFirst(mm, p, h) ==
    [q \in DOMAIN mm \cup {p} |->
        IF q \in DOMAIN mm THEN mm[q] ELSE [handler |-> h, pattern |-> p]]

\* rtm.go:60-61: mux.m[pattern] = eventHandler{handler, pattern}.
Store(mm, p, h) ==
    [q \in DOMAIN mm \cup {p} |->
        IF q = p THEN [handler |-> h, pattern |-> p] ELSE mm[q]]

\* rtm.go:92-94, 77: HandleEvent calls mux.Handler, which takes mux.mu.
HandlerLock ==
    /\ pc = "dispatch"
    /\ mu = "free"
    /\ mu' = "loop"
    /\ pc' = "lookup"
    /\ UNCHANGED <<lim, ret, body, r, ws, dials, sendID, msg, read, err, event, found, hrun,
                   m, hreg, nregs, w, nwrites, sent, watchdog, slept, wire, hist>>

\* A variant of Resolve that treats an event without a usable type as an
\* event no handler is registered for.
Resolve_Lenient(mm, ev) ==
    IF ev.k # "obj" THEN NoFound ELSE Lookup(mm, ev.t)

\* rtm.go:82-87: event.(map[string]interface{})["type"].(string), two
\* unchecked type assertions that panic when the event is no map or has no
\* string "type", then the lookup.
Resolve(mm, ev) ==
    IF ev.k # "obj" THEN [NoFound EXCEPT !.panic = TRUE] ELSE Lookup(mm, ev.t)

\* rtm.go:82-87: the body of mux.Handler, run with the lock held.
HandlerLookup ==
    /\ pc = "lookup"
    /\ found' = Resolve(m, event)
    /\ pc' = "unlock"
    /\ UNCHANGED <<lim, ret, body, r, ws, dials, sendID, msg, read, err, event, hrun,
                   m, mu, hreg, nregs, w, nwrites, sent, watchdog, slept, wire, hist>>

\* A variant of HandlerUnlock that unlocks mux.mu where Handler returns and
\* not where it panics.
HandlerUnlock_OnReturnOnly ==
    /\ pc = "unlock"
    /\ mu' = IF found.panic THEN mu ELSE "free"
    /\ IF found.panic
         THEN pc' = "panicked" /\ ws' = "closed" /\ UNCHANGED <<event, found>>
         ELSE IF found.h # "nil"
           THEN pc' = "call" /\ UNCHANGED <<ws, event, found>>
           ELSE pc' = "read" /\ event' = Bad /\ found' = NoFound /\ UNCHANGED ws
    /\ hist' = [hist EXCEPT !.want = IF found.h # "nil" THEN @ ELSE {}]
    /\ UNCHANGED <<lim, ret, body, r, dials, sendID, msg, read, err, hrun,
                   m, hreg, nregs, w, nwrites, sent, watchdog, slept, wire>>

\* A variant of HandlerUnlock that keeps mux.mu locked while the handler it
\* found is called.
HandlerUnlock_HoldLock ==
    /\ pc = "unlock"
    /\ mu' = IF ~found.panic /\ found.h # "nil" THEN mu ELSE "free"
    /\ IF found.panic
         THEN pc' = "panicked" /\ ws' = "closed" /\ UNCHANGED <<event, found>>
         ELSE IF found.h # "nil"
           THEN pc' = "call" /\ UNCHANGED <<ws, event, found>>
           ELSE pc' = "read" /\ event' = Bad /\ found' = NoFound /\ UNCHANGED ws
    /\ hist' = [hist EXCEPT !.want = IF found.h # "nil" THEN @ ELSE {}]
    /\ UNCHANGED <<lim, ret, body, r, dials, sendID, msg, read, err, hrun,
                   m, hreg, nregs, w, nwrites, sent, watchdog, slept, wire>>

\* rtm.go:78: the deferred mux.mu.Unlock() as Handler returns or panics.  A
\* panic then unwinds DialAndListen (its deferred c.ws.Close() runs) and,
\* recovered nowhere, ends the process.  rtm.go:95: a nil handler drops the
\* event.
HandlerUnlock ==
    /\ pc = "unlock"
    /\ mu' = "free"
    /\ IF found.panic
         THEN pc' = "panicked" /\ ws' = "closed" /\ UNCHANGED <<event, found>>
         ELSE IF found.h # "nil"
           THEN pc' = "call" /\ UNCHANGED <<ws, event, found>>
           ELSE pc' = "read" /\ event' = Bad /\ found' = NoFound /\ UNCHANGED ws
    /\ hist' = [hist EXCEPT !.want = IF found.h # "nil" THEN @ ELSE {}]
    /\ UNCHANGED <<lim, ret, body, r, dials, sendID, msg, read, err, hrun,
                   m, hreg, nregs, w, nwrites, sent, watchdog, slept, wire>>

\* A variant of CallHandler that starts the handler on a goroutine of its
\* own and goes back to reading at once.
CallHandler_Async ==
    /\ pc = "call"
    /\ hrun' = found.h
    /\ pc' = "read"
    /\ hist' = [hist EXCEPT
         !.invoked = Append(@, hist.nrecv),
         !.call = [h |-> found.h, t |-> event.t, want |-> hist.want],
         !.want = {},
         !.cur.handled = TRUE]
    /\ UNCHANGED <<lim, ret, body, r, ws, dials, sendID, msg, read, err, event, found,
                   m, mu, hreg, nregs, w, nwrites, sent, watchdog, slept, wire>>

\* rtm.go:96, 205: h.HandleEvent(resp, event) runs the handler on the loop's
\* own goroutine; the loop goes on when it returns.
CallHandler ==
    /\ pc = "call"
    /\ hrun' = found.h
    /\ pc' = "handler"
    /\ hist' = [hist EXCEPT
         !.invoked = Append(@, hist.nrecv),
         !.call = [h |-> found.h, t |-> event.t, want |-> hist.want],
         !.want = {},
         !.cur.handled = TRUE]
    /\ UNCHANGED <<lim, ret, body, r, ws, dials, sendID, msg, read, err, event, found,
                   m, mu, hreg, nregs, w, nwrites, sent, watchdog, slept, wire>>

\* The running handler is between two calls of its own.
HandlerIdle ==
    /\ ~Panicked
    /\ hrun # "nil"
    /\ w["loop"].pc = "none"
    /\ hreg["loop"].pc = "none"

\* The handler returns (rtm.go:96-98, 205-207): back to the read loop.
HandlerReturns ==
    /\ HandlerIdle
    /\ hrun' = "nil"
    /\ pc' = "read"
    /\ event' = Bad
    /\ found' = NoFound
    /\ hist' = [hist EXCEPT !.call = InitHist.call]
    /\ UNCHANGED <<lim, ret, body, r, ws, dials, sendID, msg, read, err,
                   m, mu, hreg, nregs, w, nwrites, sent, watchdog, slept, wire>>

\* The handler panics.  Nothing between h.HandleEvent (rtm.go:96) and the
\* top of the goroutine recovers: DialAndListen unwinds (deferred
\* c.ws.Close(), rtm.go:175) and the process ends.
HandlerPanics ==
    /\ HandlerIdle
    /\ pc' = "panicked"
    /\ ws' = "closed"
    /\ hist' = [hist EXCEPT !.faults = @ + 1]
    /\ UNCHANGED <<lim, ret, body, r, dials, sendID, msg, read, err, event, found, hrun,
                   m, mu, hreg, nregs, w, nwrites, sent, watchdog, slept, wire>>

\* --------------------------------------------------------------- Handle
\* rtm.go:56, 68-70: a context calls mux.Handle(pattern, handler): the
\* running handler on the loop context, or another goroutine.
HandleBegin(c, p, h) ==
    /\ Running
    /\ nregs < lim.regs
    /\ hreg[c].pc = "none"
    /\ IF c = "loop" THEN HandlerIdle ELSE TRUE
    /\ hreg' = [hreg EXCEPT ![c] = [pc |-> "lock", pattern |-> p, handler |-> h]]
    /\ nregs' = nregs + 1
    /\ hist' = [hist EXCEPT
         !.want = IF c = "reg" /\ pc \in {"dispatch", "lookup"} /\ p = event.t
                    THEN @ \cup {h} ELSE @]
    /\ UNCHANGED <<lim, pc, ret, body, r, ws, dials, sendID, msg, read, err, event, found,
                   hrun, m, mu, w, nwrites, sent, watchdog, slept, wire>>

\* A variant of HandleLock that goes on without waiting for the lock to be
\* free.
HandleLock_NoWait(c) ==
    /\ ~Panicked
    /\ hreg[c].pc = "lock"
    /\ mu' = c
    /\ hreg' = [hreg EXCEPT ![c].pc = "store"]
    /\ UNCHANGED <<lim, pc, ret, body, r, ws, dials, sendID, msg, read, err, event, found,
                   hrun, m, nregs, w, nwrites, sent, watchdog, slept, wire, hist>>

\* rtm.go:57: mux.mu.Lock().
HandleLock(c) ==
    /\ ~Panicked
    /\ hreg[c].pc = "lock"
    /\ mu = "free"
    /\ mu' = c
    /\ hreg' = [hreg EXCEPT ![c].pc = "store"]
    /\ UNCHANGED <<lim, pc, ret, body, r, ws, dials, sendID, msg, read, err, event, found,
                   hrun, m, nregs, w, nwrites, sent, watchdog, slept, wire, hist>>

\* rtm.go:60-61: store the entry.
HandleStore(c) ==
    /\ ~Panicked
    /\ hreg[c].pc = "store"
    /\ m' = Store(m, hreg[c].pattern, hreg[c].handler)
    /\ hreg' = [hreg EXCEPT ![c].pc = "unlock"]
    /\ hist' = [hist EXCEPT
         !.overwrote = IF /\ hreg[c].pattern \in DOMAIN m
                             /\ m[hreg[c].pattern].handler # hreg[c].handler
                          THEN @ \cup {hreg[c].pattern} ELSE @]
    /\ UNCHANGED <<lim, pc, ret, body, r, ws, dials, sendID, msg, read, err, event, found,
                   hrun, mu, nregs, w, nwrites, sent, watchdog, slept, wire>>

\* rtm.go:58: the deferred mux.mu.Unlock(); Handle returns.
HandleUnlock(c) ==
    /\ ~Panicked
    /\ hreg[c].pc = "unlock"
    /\ mu' = "free"
    /\ hreg' = [hreg EXCEPT ![c] = NoReg]
    /\ hist' = [hist EXCEPT !.completed[hreg[c].pattern] = hreg[c].handler,
                             !.reent = @ \/ c = "loop"]
    /\ UNCHANGED <<lim, pc, ret, body, r, ws, dials, sendID, msg, read, err, event, found,
                   hrun, m, nregs, w, nwrites, sent, watchdog, slept, wire>>

\* ---------------------------------------------------------------- Write
\* A variant of MessageOf that puts the text in the channel field and the
\* channel in the text field.
MessageOf_Swapped(channel, text) ==
    [type |-> "message", channel |-> text, text |-> channel]

\* rtm.go:226: the map WriteMsg builds,
\* {"type": "message", "channel": channel, "text": text}.
MessageOf(channel, text) ==
    [type |-> "message", channel |-> channel, text |-> text]

\* rtm.go:225-227: the handler calls WriteMsg(channel, text), that is Write
\* of the map MessageOf(channel, text).
WriteMsg ==
    /\ HandlerIdle
    /\ nwrites < lim.writes
    /\ \E channel \in Channels, text \in Texts :
         LET mm == MessageOf(channel, text)
         IN w' = [w EXCEPT !["loop"] =
                    [NoWrite EXCEPT !.pc = "setid", !.type = mm.type,
                                    !.channel = mm.channel, !.text = mm.text,
                                    !.args = <<channel, text>>]]
    /\ nwrites' = nwrites + 1
    /\ hist' = [hist EXCEPT !.overlap = @ \/ w["timer"].pc # "none"]
    /\ UNCHANGED <<lim, pc, ret, body, r, ws, dials, sendID, msg, read, err, event, found,
                   hrun, m, mu, hreg, nregs, sent, watchdog, slept, wire>>

\* rtm.go:212: the handler calls Write with a map of its own, which
\* json.Marshal may reject (ok = FALSE).
HandlerWrite ==
    /\ HandlerIdle
    /\ nwrites < lim.writes
    /\ \E ok \in BOOLEAN :
         w' = [w EXCEPT !["loop"] =
                 [NoWrite EXCEPT !.pc = "setid", !.type = "custom", !.ok = ok]]
    /\ nwrites' = nwrites + 1
    /\ hist' = [hist EXCEPT !.overlap = @ \/ w["timer"].pc # "none"]
    /\ UNCHANGED <<lim, pc, ret, body, r, ws, dials, sendID, msg, read, err, event, found,
                   hrun, m, mu, hreg, nregs, sent, watchdog, slept, wire>>

\* rtm.go:213: msg["id"] = c.sendID.  Nothing orders this against a Write
\* running in the other context.
WriteSetID(c) ==
    /\ ~Panicked
    /\ w[c].pc = "setid"
    /\ w' = [w EXCEPT ![c].id = sendID, ![c].pc = "load"]
    /\ UNCHANGED <<lim, pc, ret, body, r, ws, dials, sendID, msg, read, err, event, found,
                   hrun, m, mu, hreg, nregs, nwrites, sent, watchdog, slept, wire, hist>>

\* rtm.go:214: c.sendID++, the load.
WriteLoad(c) ==
    /\ ~Panicked
    /\ w[c].pc = "load"
    /\ w' = [w EXCEPT ![c].tmp = sendID, ![c].pc = "store"]
    /\ UNCHANGED <<lim, pc, ret, body, r, ws, dials, sendID, msg, read, err, event, found,
                   hrun, m, mu, hreg, nregs, nwrites, sent, watchdog, slept, wire, hist>>

\* rtm.go:214: c.sendID++, the store.
WriteStore(c) ==
    /\ ~Panicked
    /\ w[c].pc = "store"
    /\ sendID' = w[c].tmp + 1
    /\ w' = [w EXCEPT ![c].pc = "send"]
    /\ UNCHANGED <<lim, pc, ret, body, r, ws, dials, msg, read, err, event, found,
                   hrun, m, mu, hreg, nregs, nwrites, sent, watchdog, slept, wire, hist>>

\* rtm.go:216-220: json.Marshal; an error returns (-1, err), otherwise the
\* data goes to c.ws.Write.
WriteSend(c) ==
    /\ ~Panicked
    /\ w[c].pc = "send"
    /\ sent' = IF w[c].ok
                 THEN Append(sent, [id |-> w[c].id, type |-> w[c].type,
                                    channel |-> w[c].channel, text |-> w[c].text,
                                    by |-> c, arm |-> w[c].arm, args |-> w[c].args])
                 ELSE sent
    /\ w' = [w EXCEPT ![c] = NoWrite]
    /\ UNCHANGED <<lim, pc, ret, body, r, ws, dials, sendID, msg, read, err, event, found,
                   hrun, m, mu, hreg, nregs, nwrites, watchdog, slept, wire, hist>>

\* -------------------------------------------------------------- watchdog
\* A variant of WatchdogFire in which the timer is pending again, with a new
\* interval, as soon as it has expired.
WatchdogFire_Recurring ==
    /\ Running
    /\ watchdog.armed
    /\ watchdog.idle = WatchdogSeconds
    /\ w["timer"].pc = "none"
    /\ watchdog' = [armed |-> TRUE, idle |-> 0]
    /\ w' = [w EXCEPT !["timer"] =
               [NoWrite EXCEPT !.pc = "setid", !.type = "ping", !.arm = hist.armNo]]
    /\ hist' = [hist EXCEPT !.nfire = @ + 1,
                             !.overlap = @ \/ w["loop"].pc # "none"]
    /\ UNCHANGED <<lim, pc, ret, body, r, ws, dials, sendID, msg, read, err, event, found,
                   hrun, m, mu, hreg, nregs, nwrites, sent, slept, wire>>

\* rtm.go:179-181: the timer set by time.AfterFunc expires once and starts
\* its callback, c.Write({"type": "ping"}), on a goroutine of its own.
WatchdogFire ==
    /\ Running
    /\ watchdog.armed
    /\ watchdog.idle = WatchdogSeconds
    /\ w["timer"].pc = "none"
    /\ watchdog' = [watchdog EXCEPT !.armed = FALSE]
    /\ w' = [w EXCEPT !["timer"] =
               [NoWrite EXCEPT !.pc = "setid", !.type = "ping", !.arm = hist.armNo]]
    /\ hist' = [hist EXCEPT !.nfire = @ + 1,
                             !.overlap = @ \/ w["loop"].pc # "none"]
    /\ UNCHANGED <<lim, pc, ret, body, r, ws, dials, sendID, msg, read, err, event, found,
                   hrun, m, mu, hreg, nregs, nwrites, sent, slept, wire>>

\* Seconds pass only while the loop context is blocked in c.ws.Read, in
\* time.Sleep or in a handler's own code and no Write or Handle call is in
\* progress anywhere; every other step takes no time.
Quiet ==
    /\ pc \in {"read", "sleep", "handler"}
    /\ \A c \in Ctx : w[c].pc = "none"
    /\ \A c \in RegCtx : hreg[c].pc = "none"

\* The time after which the model stops counting the idle seconds.
IdleCap == 2 * WatchdogSeconds

\* The delays after which something can happen next: the end of the sleep,
\* the watchdog's expiry, the end of the interval after the expiry.  What
\* the peer sends can arrive at any of these instants.
Delays ==
    (IF pc = "sleep" /\ slept < SleepSeconds THEN {SleepSeconds - slept} ELSE {})
    \cup (IF watchdog.idle < WatchdogSeconds THEN {WatchdogSeconds - watchdog.idle} ELSE {})
    \cup (IF watchdog.idle >= WatchdogSeconds /\ watchdog.idle < IdleCap
            THEN {IdleCap - watchdog.idle} ELSE {})

\* Time passes, up to one of the next instants.  A pending timer's expiry
\* is not passed over.
Tick ==
    /\ Quiet
    /\ \E d \in Delays :
         /\ watchdog.armed => watchdog.idle + d <= WatchdogSeconds
         /\ (watchdog.armed /\ watchdog.idle + d = WatchdogSeconds)
              => hist.nfire < lim.expiries
         /\ watchdog' = [watchdog EXCEPT !.idle = Min(@ + d, IdleCap)]
         /\ slept' = IF pc = "sleep" THEN Min(slept + d, SleepSeconds) ELSE slept
    /\ UNCHANGED <<lim, pc, ret, body, r, ws, dials, sendID, msg, read, err, event, found,
                   hrun, m, mu, hreg, nregs, w, nwrites, sent, wire, hist>>

Next ==
    \/ HttpGet
    \/ DecodeStart
    \/ Dial
    \/ ArmWatchdog
    \/ Read
    \/ WakeUp
    \/ WatchdogReset
    \/ Unmarshal
    \/ HandlerLock
    \/ HandlerLookup
    \/ HandlerUnlock
    \/ CallHandler
    \/ HandlerReturns
    \/ HandlerPanics
    \/ \E c \in RegCtx, p \in Patterns, h \in HandlerIds : HandleBegin(c, p, h)
    \/ \E c \in RegCtx : HandleLock(c)
    \/ \E c \in RegCtx : HandleStore(c)
    \/ \E c \in RegCtx : HandleUnlock(c)
    \/ WriteMsg
    \/ HandlerWrite
    \/ \E c \in Ctx : WriteSetID(c)
    \/ \E c \in Ctx : WriteLoad(c)
    \/ \E c \in Ctx : WriteStore(c)
    \/ \E c \in Ctx : WriteSend(c)
    \/ WatchdogFire
    \/ Tick

Spec == Init /\ [][Next]_vars

\* The scheduler runs every goroutine that can run and sync.Mutex hands the
\* lock to a waiting goroutine: a Handle call that can take its next step
\* takes it.
FairSpec ==
    /\ Spec
    /\ \A c \in RegCtx :
         WF_vars(HandleLock(c)) /\ WF_vars(HandleStore(c)) /\ WF_vars(HandleUnlock(c))

\* ================================================================ claims
TypeOK ==
    /\ pc \in {"start", "decode", "dial", "arm", "read", "sleep", "reset", "unmarshal",
               "dispatch", "lookup", "unlock", "call", "handler", "returned", "panicked"}
    /\ ws \in {"nil", "open", "closed"}
    /\ mu \in {"free", "loop", "reg"}
    /\ read \in {0, BufSize - 1, BufSize}
    /\ watchdog.idle \in 0..IdleCap
    /\ DOMAIN m \subseteq Patterns
    /\ lim \in Scenarios

\* C1: the ids put on the socket by the Writes of a handler and of the
\* watchdog callback are strictly increasing, hence pairwise distinct.
C1_IdsStrictlyIncreasing ==
    \A i, j \in 1..Len(sent) : i < j => sent[i].id < sent[j].id

\* C2: once a socket read has returned an error, DialAndListen has returned
\* that error and no further read was made on the connection.
C2_ReadErrorReturned ==
    hist.nerr > 0 => (pc = "returned" /\ ret.kind = "read" /\ ~hist.readAfterErr)

\* C3: for a frame delivered in several reads, json.Unmarshal is handed the
\* bytes of all its reads in order, and a frame that is valid JSON yields
\* its event.
C3_FrameReassembled ==
    (hist.cur.decoded /\ Len(hist.chunks) > 1)
        => (hist.arg = hist.chunks /\ hist.cur.got = hist.cur.json)

\* C4: after a handler has panicked the read loop is still running:
\* DialAndListen has not exited.
C4_HandlerFaultIsolated ==
    hist.faults > 0 => Running

\* The loop is through with the current frame: it was decoded and no
\* dispatch of it is pending.
FrameDone == hist.cur.decoded /\ pc \in {"read", "sleep", "handler"}

\* C5: no handler is invoked for a frame that is not valid JSON and the loop
\* goes on after it; the frame after it, when it is well formed and its
\* type is registered, is dispatched.
C5_MalformedFrameSkipped ==
    /\ hist.cur.json = Bad => ~hist.cur.handled
    /\ (hist.cur.json = Bad /\ hist.cur.decoded) => Running
    /\ (hist.prevBad /\ FrameDone /\ hist.cur.json.k = "obj" /\ hist.cur.wasReg)
          => hist.cur.handled

\* The pings the watchdog callback of arming a has handed to the socket.
Pings(a) ==
    {i \in 1..Len(sent) :
        sent[i].by = "timer" /\ sent[i].type = "ping" /\ sent[i].arm = a}

\* The watchdog callback of arming a is running its Write.
InFlight(a) == w["timer"].pc # "none" /\ w["timer"].arm = a

\* The armings during which no frame was received for the whole interval.
Elapsed ==
    hist.full \cup (IF IntervalElapsed(watchdog) THEN {hist.armNo} ELSE {})

C9_InOrderOneAtATime ==
    /\ \A i, j \in 1..Len(hist.invoked) : i < j => hist.invoked[i] < hist.invoked[j]
    /\ hrun # "nil" =>
         /\ pc \in {"handler", "panicked"}
         /\ hist.invoked # <<>>
         /\ hist.invoked[Len(hist.invoked)] = hist.nrecv

\* C9 witness: the handler of the second frame runs after the handler of
\* the first.
C9_Witness ==
    /\ hist.invoked = <<1, 2>>
    /\ hrun # "nil"
    /\ pc = "handler"

\* C10: when the rtm.start response decodes with ok = false, DialAndListen
\* has returned an error that carries the response's error string, and no
\* socket was dialed, the watchdog was never armed, nothing was read and no
\* handler was invoked.
C10_HandshakeRejected ==
    (body.valid /\ ~body.Ok /\ pc \notin {"start", "decode"}) =>
      /\ pc = "returned"
      /\ ret.kind = "notok"
      /\ ret.text[Len(ret.text)] = body.Error
      /\ dials = 0
      /\ ws = "nil"
      /\ hist.armNo = 0
      /\ ~watchdog.armed
      /\ ~hist.anyRead
      /\ hist.invoked = <<>>

\* C10 witness: DialAndListen returned after a response with ok = false and
\* a non-empty error string.
C10_Witness ==
    /\ pc = "returned"
    /\ body.valid
    /\ ~body.Ok
    /\ body.Error = "invalid_auth"

\* C11: the data WriteMsg(channel, text) puts on the socket has type
\* "message" and the channel and text of the call; the first Write made on a
\* Client carries id 0, so a run whose only Write is the WriteMsg of the
\* handler of the one frame received puts exactly one message on the socket,
\* with id 0.
C11_FirstWriteMsgShape ==
    /\ \A i \in 1..Len(sent) :
         sent[i].args # <<>> =>
           /\ sent[i].type = "message"
           /\ sent[i].channel = sent[i].args[1]
           /\ sent[i].text = sent[i].args[2]
    /\ (nwrites + hist.nfire = 1) =>
         /\ Len(sent) <= 1
         /\ \A i \in 1..Len(sent) : sent[i].id = InitialSendID
         /\ \A c \in Ctx : w[c].pc \in {"load", "store", "send"} => w[c].id = InitialSendID

\* C11 witness: one frame was received, its handler called
\* WriteMsg("C123", "ready") and that is the one write made: the socket got
\* {type: "message", channel: "C123", text: "ready", id: 0}.
C11_Witness ==
    /\ hist.nrecv = 1
    /\ hist.invoked = <<1>>
    /\ hrun # "nil"
    /\ nwrites = 1
    /\ hist.nfire = 0
    /\ w["loop"] = NoWrite
    /\ Len(sent) = 1
    /\ sent[1].type = "message"
    /\ sent[1].channel = "C123"
    /\ sent[1].text = "ready"
    /\ sent[1].id = 0
    /\ sent[1].by = "loop"

\* C12: a Handle call made by a handler that HandleEvent is running (the
\* loop context is inside the handler, mux.Handler has returned) always
\* completes: it gets the lock, stores the entry and returns; when the
\* handler then returns, the loop goes back to reading the next frame.
C12_ReentrantRegistration ==
    /\ [](hreg["loop"].pc # "none" => (hrun # "nil" /\ pc = "handler"))
    /\ (hreg["loop"].pc = "lock") ~> (hreg["loop"].pc = "none" /\ hist.reent)
    /\ [][(hist.reent /\ hrun # "nil" /\ hrun' = "nil") => pc' = "read"]_vars

\* C12 witness: a handler registered a handler and returned, and the loop
\* has received the next frame.
C12_Witness ==
    /\ hist.reent
    /\ hrun = "nil"
    /\ pc = "reset"
    /\ hist.nrecv = 2
    /\ hist.invoked = <<1>>

\* C13: one DialAndListen call makes at most one rtm.start request and at
\* most one websocket.Dial, and once it has exited (it returned an error, or
\* a panic ended the read loop) nothing more happens on the Client: no
\* request, no dial, no read, no dispatch, and the socket is left as it is.
C13_NoReconnect ==
    /\ [](hist.gets <= 1 /\ dials <= 1)
    /\ [][~Running =>
            /\ pc' = pc
            /\ hist'.gets = hist.gets
            /\ dials' = dials
            /\ ws' = ws
            /\ hist'.anyRead = hist.anyRead
            /\ hist'.nrecv = hist.nrecv
            /\ hist'.nerr = hist.nerr
            /\ hist'.chunks = hist.chunks
            /\ hist'.invoked = hist.invoked
            /\ hrun' = hrun]_vars

\* C13 witness: DialAndListen returned the error of its one dial, and a
\* Handle call of another goroutine is still going on.
C13_Witness ==
    /\ pc = "returned"
    /\ ret.kind = "dial"
    /\ dials = 1
    /\ hist.gets = 1
    /\ hreg["reg"].pc = "store"

\* C14: as long as no Write call has begun while another was in progress,
\* the n-th message put on the socket carries id n - 1, whatever Write calls
\* failed to serialize their message before it.
C14_NoGapsSingleWriter ==
    ~hist.overlap => \A i \in 1..Len(sent) : sent[i].id = InitialSendID + i - 1

\* C15: after a read that returned zero bytes and no error the loop sleeps
\* and then reads again (it does not leave the inner read loop: no frame is
\* counted, no watchdog Reset, no dispatch), and json.Unmarshal is never
\* handed zero bytes.
C15_EmptyReadPauses ==
    /\ (Running /\ hist.anyRead /\ read = 0 /\ err = "nil") => pc \in {"sleep", "read"}
    /\ hist.cur.decoded => hist.arg # <<>>

\* The pings started for arming a: written or being written.
Started(a) == Cardinality(Pings(a)) + (IF InFlight(a) THEN 1 ELSE 0)

C17_ResetOnDecode ==
    /\ (hist.cur.decoded /\ hist.cur.got # Bad) => hist.cur.reset
    /\ (hist.cur.decoded /\ hist.cur.got = Bad /\ hist.cur.json = Bad
          /\ Len(hist.chunks) = 1) => ~hist.cur.reset

\* C17 amended: the watchdog is Reset every time the inner read loop is
\* left, before json.Unmarshal runs and so before any dispatch, whether
\* json.Unmarshal then accepts the bytes or not: it has been armed once at
\* the start of the loop and once more for every exit of the inner loop.
C17_ResetOnReceipt ==
    /\ hist.cur.decoded => hist.cur.reset
    /\ pc \in {"unmarshal", "dispatch", "lookup", "unlock", "call", "handler"}
         => hist.cur.reset
    /\ hist.cur.handled => hist.cur.reset
    /\ hist.armNo > 0 => hist.armNo = hist.nrecv + (IF pc = "reset" THEN 0 ELSE 1)

\* C17 witness: a frame of bytes that are not JSON was received and
\* dropped by the decoder, and the watchdog was Reset for it.
C17_Witness ==
    /\ hist.cur.decoded
    /\ hist.cur.json = Bad
    /\ hist.cur.got = Bad
    /\ Len(hist.chunks) = 1
    /\ hist.cur.reset
    /\ hist.armNo = 2
    /\ watchdog.armed
    /\ watchdog.idle = 0

\* C18: for an event json.Unmarshal accepted that is no JSON object or has
\* no string "type", mux.Handler does not return: it panics (it does not
\* answer (nil, "") as for an unregistered type), no handler is invoked and
\* no handler panic is counted, and the panic ends DialAndListen.
C18_TypeFaultIsFatal ==
    (hist.cur.decoded /\ hist.cur.got.k \in {"notype", "nonmap"}
       /\ pc \notin {"dispatch", "lookup"})
      => /\ found.panic
         /\ found # NoFound
         /\ pc \in {"unlock", "panicked"}
         /\ ~hist.cur.handled
         /\ hrun = "nil"
         /\ hist.faults = 0

\* C18 witness: a frame holding JSON that is not an object was decoded and
\* its resolution ended the process, while a handler is registered.
C18_Witness ==
    /\ pc = "panicked"
    /\ event = NonMap
    /\ found.panic
    /\ DOMAIN m # {}
    /\ hist.invoked = <<>>

\* The contexts inside a section of code that reads or writes mux.m: the
\* body of Handler on the loop context, the body of Handle on any context.
InLookup == pc \in {"lookup", "unlock"}
InStore(c) == hreg[c].pc \in {"store", "unlock"}

\* C19: the lookup of Handler and the store of Handle never run on the
\* table at the same time, nor two stores: each runs with mux.mu held by its
\* own context.  A lookup gives a whole entry, its pattern the event's type
\* and its handler that of one registration of that pattern: the last one
\* completed when HandleEvent was entered (none: no entry) or one in flight
\* since.
C19_AtomicRegistrationLookup ==
    /\ InLookup => (mu = "loop" /\ \A c \in RegCtx : ~InStore(c))
    /\ \A c \in RegCtx : InStore(c) => (mu = c /\ \A d \in RegCtx \ {c} : ~InStore(d))
    /\ (pc = "unlock" /\ ~found.panic) =>
         /\ found.h \in hist.want
         /\ found.h # "nil" => found.pattern = event.t
         /\ found.h = "nil" => found = NoFound

\* C19 witness: HandleEvent waits for the lock to look up an event whose
\* type has an entry, while a Handle of another goroutine holds the lock to
\* replace that entry with another handler.
C19_Witness ==
    /\ pc = "dispatch"
    /\ event.k = "obj"
    /\ hreg["reg"].pc = "store"
    /\ mu = "reg"
    /\ hreg["reg"].pattern = event.t
    /\ event.t \in DOMAIN m
    /\ m[event.t].handler # hreg["reg"].handler

\* C20: mux.mu is held only by a context that is inside the body of Handler
\* or of Handle.  The loop context holds it in no other position: not while
\* it reads, decodes or calls a handler, not while the handler runs (but
\* inside a Handle the handler itself calls), and not after a panic of the
\* type extraction or of a handler.
C20_LockHeldOnlyInside ==
    /\ mu = "loop" => (InLookup \/ InStore("loop"))
    /\ mu = "reg" => InStore("reg")
    /\ InStore("loop") => (hrun # "nil" /\ pc = "handler")
    /\ pc \in {"call", "read", "sleep", "reset", "unmarshal", "dispatch", "panicked",
               "returned"} => mu # "loop"

\* C20 witness: the type extraction panicked on an object without a string
\* "type" and the lock is free.
C20_Witness ==
    /\ pc = "panicked"
    /\ found.panic
    /\ event = NoType
    /\ mu = "free"
====
